---- MODULE Spec2Model ----
(***************************************************************************)
(* Model of the code assembly compiler of codex:                           *)
(*   - src/codex/compile.py: the control-flow linearizer                   *)
(*     (pre_process_nodes, process_if_paths, find_common_descendent), the  *)
(*     code emitter (CodeableNode.__str__, graph_to_code), the assembly    *)
(*     driver (compile_graph, generate_requirements_txt) and the packager  *)
(*     (create_fastapi_server);                                            *)
(*   - src/codex/develop/compile.py: the function tree linker              *)
(*     (recursive_compile_route, process_object_field/type, compile_route),*)
(*     run alone and as two interleaved invocations.                       *)
(* Text is modelled as a sequence of tokens; node names are pairs          *)
(* <<kind, index>> in the linearizer and character strings in the emitter. *)
(* Each operation has its own specification over the same variables.       *)
(***************************************************************************)
EXTENDS Integers, Sequences, FiniteSets, TLC

VARIABLES
    nodes,            \* node_graph.nodes: the node list handed to pre_process_nodes
    canon,            \* the same graph with its node list in traversal order
    pc,               \* "ready" before the call, "done" after it returned, "raised" after it raised
    codeable_nodes,   \* the list pre_process_nodes returns
    commons,          \* <<branch name, commonon_descendent>> of every find_common_descendent call
    db,               \* the data store: the Function rows of one fragment tree
                      \* (SpecConc: one such tree per invocation)
    linked,           \* what recursive_compile_route(root) returned or raised
    compiled_routes,  \* the CompiledRoute rows created by compile_route
    function_name,    \* graph_to_code's function_name argument
    graph_script,     \* the text graph_to_code returns
    requirements,     \* generate_requirements_txt's packages argument
    requirements_txt, \* the text generate_requirements_txt returns
    node_implementations, \* compile_graph's node_implementations argument
    ep_name,          \* ep.name of compile_graph's ExecutionPath
    function_data,    \* the FunctionData compile_graph returns
    calls,            \* the compile_route invocations in flight: frames, status, result
    object_type_ids_default, \* the set object that is the default of object_type_ids
    functions_data,   \* create_fastapi_server's argument
    bundles,          \* what each run of create_fastapi_server returned or raised
    object_types,     \* the ObjectType rows: type id -> the typeId of each of its Fields
    expansion         \* one process_object_field call: its argument, the frames of the
                      \* process_object_type calls in progress, the seen-set, the result

graphVars == <<nodes, canon, codeable_nodes, commons>>
linkVars == <<db, linked, compiled_routes>>
renderVars == <<function_name, graph_script>>
reqVars == <<requirements, requirements_txt>>
assembleVars == <<node_implementations, ep_name, function_data>>
concVars == <<calls, object_type_ids_default>>
bundleVars == <<functions_data, bundles>>
expandVars == <<object_types, expansion>>

vars == <<pc, graphVars, linkVars, renderVars, reqVars, assembleVars, concVars, bundleVars,
          expandVars>>

(***************************************************************************)
(* Bounds of the model.                                                    *)
(***************************************************************************)
MaxArm == 2        \* longest branch arm, in action nodes
MaxFuncs == 3      \* most fragments in a fragment tree

(***************************************************************************)
(* Generic helpers.                                                        *)
(***************************************************************************)
InSeq(x, s) == \E k \in 1..Len(s) : s[k] = x

Range(s) == {s[k] : k \in 1..Len(s)}

RECURSIVE Flatten(_)
Flatten(ss) == IF ss = <<>> THEN <<>> ELSE Head(ss) \o Flatten(Tail(ss))

Reverse(s) == [k \in 1..Len(s) |-> s[Len(s) + 1 - k]]

(***************************************************************************)
(* Graph model (NodeDef, ElseIf, NodeTypeEnum of chains.gen_branching_graph*)
(* as compile.py reads them).                                              *)
(***************************************************************************)
None == <<"None", 0>>        \* Python None in a name slot
EmptyStr == <<"", 0>>        \* the empty string ""

NodeDef(name, type, next, tnext, fnext, elifs) ==
    [name |-> name, node_type |-> type, next_node_name |-> next,
     true_next_node_name |-> tnext, false_next_node_name |-> fnext, elifs |-> elifs]

ElseIf(cond, tnext) == [python_condition |-> cond, true_next_node_name |-> tnext]

NoNodeDef == NodeDef(None, "none", None, None, None, <<>>)   \* node=None
NoElseIf == ElseIf(None, None)                               \* elseif=None

CodeableNode(indent, type, node, elseif) ==
    [indent_level |-> indent, node_type |-> type, node |-> node, elseif |-> elseif]

(***************************************************************************)
(* find_common_descendent: scans the nodes listed after the branch and     *)
(* returns the first one whose name is the next_node_name of a node        *)
(* scanned before it.                                                      *)
(***************************************************************************)
RECURSIVE fcd_loop(_, _, _)
fcd_loop(ns, j, descendents) ==
    IF j > Len(ns) THEN EmptyStr
    ELSE IF InSeq(ns[j].name, descendents) THEN ns[j].name
    ELSE fcd_loop(ns, j + 1, Append(descendents, ns[j].next_node_name))

find_common_descendent(ns, node, i) == fcd_loop(ns, i + 1, <<>>)

(***************************************************************************)
(* process_if_paths: one pass over the node list, following next_node.     *)
(***************************************************************************)
RECURSIVE pip_loop(_, _, _, _, _, _)
pip_loop(ns, j, next_node, commonon_descendent, indent_level, acc) ==
    IF j > Len(ns) THEN acc
    ELSE LET subnode == ns[j] IN
         IF subnode.name # commonon_descendent /\ subnode.name = next_node
         THEN pip_loop(ns, j + 1, subnode.next_node_name, commonon_descendent, indent_level,
                       [skip |-> Append(acc.skip, subnode.name),
                        code |-> Append(acc.code,
                                   CodeableNode(indent_level, subnode.node_type, subnode, NoElseIf))])
         ELSE pip_loop(ns, j + 1, next_node, commonon_descendent, indent_level, acc)

process_if_paths(ns, node, next_node_name, commonon_descendent, indent_level) ==
    pip_loop(ns, 1, next_node_name, commonon_descendent, indent_level,
             [skip |-> <<>>, code |-> <<>>])

(***************************************************************************)
(* pre_process_nodes.  The accumulator holds the loop's locals.            *)
(***************************************************************************)
RECURSIVE elifs_loop(_, _, _, _, _, _)
elifs_loop(ns, node, k, commonon_descendent, indent_level, acc) ==
    IF k > Len(node.elifs) THEN acc
    ELSE LET elifs == node.elifs[k]
             r == process_if_paths(ns, node, elifs.true_next_node_name,
                                   commonon_descendent, indent_level + 1)
         IN elifs_loop(ns, node, k + 1, commonon_descendent, indent_level,
                [acc EXCEPT
                   !.codeable = Append(@, CodeableNode(indent_level, "elif", NoNodeDef, elifs))
                                \o r.code,
                   !.skip = @ \o r.skip])

if_branch(ns, node, i, acc) ==
    LET commonon_descendent == find_common_descendent(ns, node, i)
        indent_level == acc.indent
        t == process_if_paths(ns, node, node.true_next_node_name,
                              commonon_descendent, indent_level + 1)
        a1 == [acc EXCEPT
                 !.codeable = Append(@, CodeableNode(indent_level, "if", node, NoElseIf))
                              \o t.code,
                 !.skip = @ \o t.skip,
                 !.commons = Append(@, <<node.name, commonon_descendent>>)]
        a2 == elifs_loop(ns, node, 1, commonon_descendent, indent_level, a1)
    IN IF node.false_next_node_name # commonon_descendent
       THEN LET f == process_if_paths(ns, node, node.false_next_node_name,
                                      commonon_descendent, indent_level + 1)
            IN [a2 EXCEPT
                  !.codeable = Append(@, CodeableNode(indent_level, "else", node, NoElseIf))
                               \o f.code,
                  !.skip = @ \o f.skip]
       ELSE a2

RECURSIVE ppn_loop(_, _, _)
ppn_loop(ns, i, acc) ==
    IF i > Len(ns) THEN acc
    ELSE LET node == ns[i] IN
         IF InSeq(node.name, acc.skip) THEN ppn_loop(ns, i + 1, acc)
         ELSE IF node.node_type = "start"
         THEN ppn_loop(ns, i + 1,
                [acc EXCEPT !.codeable = Append(@, CodeableNode(acc.indent, "start", node, NoElseIf)),
                            !.indent = @ + 1])
         ELSE IF node.node_type = "if"
         THEN ppn_loop(ns, i + 1, if_branch(ns, node, i, acc))
         ELSE IF node.node_type = "action"
         THEN ppn_loop(ns, i + 1,
                [acc EXCEPT !.codeable = Append(@, CodeableNode(acc.indent, "action", node, NoElseIf))])
         ELSE IF node.node_type = "end"
         THEN ppn_loop(ns, i + 1,
                [acc EXCEPT !.codeable = Append(@, CodeableNode(acc.indent, "end", node, NoElseIf)),
                            !.indent = @ - 1])
         ELSE ppn_loop(ns, i + 1, acc)

pre_process_nodes(ns) ==
    ppn_loop(ns, 1, [codeable |-> <<>>, skip |-> <<>>, indent |-> 0, commons |-> <<>>])

(***************************************************************************)
(* The graphs the linearizer is run on.  A graph is laid out as a producer *)
(* lists it (start, leading action, branch, true arm, else-if arm, false   *)
(* arm, merge node, end) and then handed over with its node list permuted. *)
(***************************************************************************)
Start(name, next) == NodeDef(name, "start", next, None, None, <<>>)
Action(name, next) == NodeDef(name, "action", next, None, None, <<>>)
End(name) == NodeDef(name, "end", None, None, None, <<>>)
If(name, tnext, fnext, elifs) == NodeDef(name, "if", None, tnext, fnext, elifs)

RECURSIVE ChainNodes(_, _, _, _)
ChainNodes(kind, k, len, after) ==
    IF k > len THEN <<>>
    ELSE <<Action(<<kind, k>>, IF k = len THEN after ELSE <<kind, k + 1>>)>>
         \o ChainNodes(kind, k + 1, len, after)

ChainHead(kind, len, after) == IF len = 0 THEN after ELSE <<kind, 1>>

Shapes ==
    [pre : BOOLEAN,                         \* an action between start and the branch
     kind : {"none", "join", "split"},      \* no branch / arms rejoin / each arm has its own end
     ta : 0..MaxArm,                        \* true arm length
     fa : 0..MaxArm,                        \* false arm length
     ea : -1..MaxArm,                       \* else-if arm length, -1: no else-if clause
     post : BOOLEAN,                        \* the merge point is an action (else the end node)
     nested : BOOLEAN,                      \* the true arm starts with an inner branch
     bad : {"none", "nostart", "twostart", "cycle"}]

Build(sh) ==
    LET afterPre == IF sh.kind = "none" THEN <<"end", 0>> ELSE <<"br", 1>>
        first == ChainHead("p", IF sh.pre THEN 1 ELSE 0, afterPre)
        EndNode(name) == IF sh.bad = "cycle" /\ name \in {<<"end", 0>>, <<"end", 1>>}
                         THEN Action(name, first) ELSE End(name)
        mergeHead == IF sh.post THEN <<"m", 1>> ELSE <<"end", 0>>
        target(k) == IF sh.kind = "join" THEN mergeHead ELSE <<"end", k>>
        armEnd(k) == IF sh.kind = "split" THEN <<EndNode(<<"end", k>>)>> ELSE <<>>
        starts == IF sh.bad = "nostart" THEN <<>>
                  ELSE IF sh.bad = "twostart"
                  THEN <<Start(<<"start", 1>>, first), Start(<<"start", 2>>, first)>>
                  ELSE <<Start(<<"start", 1>>, first)>>
        pres == ChainNodes("p", 1, IF sh.pre THEN 1 ELSE 0, afterPre)
        tRest == ChainHead("t", sh.ta, target(1))
        inner == IF sh.nested
                 THEN <<If(<<"br", 2>>, <<"it", 1>>, <<"if", 1>>, <<>>),
                        Action(<<"it", 1>>, <<"im", 1>>),
                        Action(<<"if", 1>>, <<"im", 1>>),
                        Action(<<"im", 1>>, tRest)>>
                 ELSE <<>>
        elifs == IF sh.ea >= 0 THEN <<ElseIf(<<"cond", 1>>, ChainHead("e", sh.ea, target(3)))>>
                 ELSE <<>>
        branch == If(<<"br", 1>>, IF sh.nested THEN <<"br", 2>> ELSE tRest,
                     ChainHead("f", sh.fa, target(2)), elifs)
        trueArm == inner \o ChainNodes("t", 1, sh.ta, target(1)) \o armEnd(1)
        elifArm == IF sh.ea >= 0 THEN ChainNodes("e", 1, sh.ea, target(3)) \o armEnd(3) ELSE <<>>
        falseArm == ChainNodes("f", 1, sh.fa, target(2)) \o armEnd(2)
        tail == IF sh.kind = "join"
                THEN (IF sh.post THEN <<Action(<<"m", 1>>, <<"end", 0>>)>> ELSE <<>>)
                     \o <<EndNode(<<"end", 0>>)>>
                ELSE <<>>
    IN IF sh.kind = "none"
       THEN starts \o pres \o <<EndNode(<<"end", 0>>)>>
       ELSE starts \o pres \o <<branch>> \o trueArm \o elifArm \o falseArm \o tail

\* Shapes that differ only in fields the layout ignores are drawn once.
Normal(sh) ==
    /\ sh.kind = "none" => sh.ta = 0 /\ sh.fa = 0 /\ sh.ea = -1 /\ ~sh.nested /\ ~sh.post
    /\ sh.kind = "split" => ~sh.post

\* k = 0: the list as laid out; 0 < k < Len: positions k, k+1 swapped; k = Len: reversed.
Permute(s, k) ==
    IF k = 0 THEN s
    ELSE IF k = Len(s) THEN Reverse(s)
    ELSE [j \in 1..Len(s) |-> IF j = k THEN s[k + 1] ELSE IF j = k + 1 THEN s[k] ELSE s[j]]

NoLinked == [ok |-> FALSE, what |-> "not run"]

\* the variables of the operations a specification does not run keep their
\* initial, empty value; used names the groups the specification sets itself
IdleExcept(used) ==
    /\ IF "graph" \in used THEN TRUE
       ELSE nodes = <<>> /\ canon = <<>> /\ codeable_nodes = <<>> /\ commons = <<>>
    /\ IF "link" \in used THEN TRUE
       ELSE db = <<>> /\ linked = NoLinked /\ compiled_routes = <<>>
    /\ IF "render" \in used THEN TRUE ELSE function_name = <<>> /\ graph_script = <<>>
    /\ IF "req" \in used THEN TRUE ELSE requirements = <<>> /\ requirements_txt = <<>>
    /\ IF "assemble" \in used THEN TRUE
       ELSE node_implementations = <<>> /\ ep_name = <<>> /\ function_data = NoLinked
    /\ IF "conc" \in used THEN TRUE ELSE calls = <<>> /\ object_type_ids_default = {}
    /\ IF "bundle" \in used THEN TRUE ELSE functions_data = <<>> /\ bundles = <<>>
    /\ IF "expand" \in used THEN TRUE ELSE object_types = <<>> /\ expansion = <<>>

InitGraph ==
    /\ \E sh \in Shapes :
         /\ Normal(sh)
         /\ canon = Build(sh)
         /\ \E k \in 0..Len(Build(sh)) : nodes = Permute(Build(sh), k)
    /\ pc = "ready"
    /\ codeable_nodes = <<>>
    /\ commons = <<>>
    /\ IdleExcept({"graph"})

\* convert_graph_to_code's call of pre_process_nodes: it has no raise statement
\* and no failing operation, so it returns for every node list.
PreProcessNodes ==
    /\ pc = "ready"
    /\ LET r == pre_process_nodes(nodes) IN
         /\ codeable_nodes' = r.codeable
         /\ commons' = r.commons
    /\ pc' = "done"
    /\ UNCHANGED <<nodes, canon, linkVars, renderVars, reqVars, assembleVars, concVars,
                   bundleVars,
                   expandVars>>

NextGraph == PreProcessNodes

SpecGraph == InitGraph /\ [][NextGraph]_vars

(***************************************************************************)
(* Graph structure, read off the successor references alone.               *)
(***************************************************************************)
Names(ns) == {ns[k].name : k \in 1..Len(ns)}

NodeOf(ns, n) == CHOOSE x \in Range(ns) : x.name = n

ArmHeads(node) ==
    <<node.true_next_node_name>>
    \o [k \in 1..Len(node.elifs) |-> node.elifs[k].true_next_node_name]
    \o <<node.false_next_node_name>>

Succs(node) ==
    (IF node.node_type = "if" THEN Range(ArmHeads(node)) ELSE {node.next_node_name}) \ {None}

RECURSIVE ReachFrom(_, _)
ReachFrom(ns, S) ==
    LET S2 == S \cup UNION {Succs(NodeOf(ns, x)) \cap Names(ns) : x \in S}
    IN IF S2 = S THEN S ELSE ReachFrom(ns, S2)

\* the nodes reachable from the node named n, n included
Reach(ns, n) == IF n \in Names(ns) THEN ReachFrom(ns, {n}) ELSE {}

StartNodes(ns) == {k \in 1..Len(ns) : ns[k].node_type = "start"}

Cyclic(ns) ==
    \E x \in Range(ns) : \E s \in Succs(x) : x.name \in Reach(ns, s)

WellFormed(ns) ==
    /\ Cardinality(Names(ns)) = Len(ns)
    /\ Cardinality(StartNodes(ns)) = 1
    /\ \A x \in Range(ns) :
         /\ Succs(x) \subseteq Names(ns)
         /\ x.node_type = "end" <=> Succs(x) = {}
         /\ x.node_type = "if" => None \notin Range(ArmHeads(x))
         /\ \A s \in Succs(x) : NodeOf(ns, s).node_type # "start"
    /\ ~Cyclic(ns)
    /\ \A k \in StartNodes(ns) : Reach(ns, ns[k].name) = Names(ns)

Branches(ns) == {x \in Range(ns) : x.node_type = "if"}

\* the nodes every arm of branch b reaches
Common(ns, b) ==
    {n \in Names(ns) : \A k \in 1..Len(ArmHeads(b)) : n \in Reach(ns, ArmHeads(b)[k])}

\* the first of them: the one all the others are reached from ("" if the arms never meet)
MergePoint(ns, b) ==
    IF \E m \in Common(ns, b) : Common(ns, b) \subseteq Reach(ns, m)
    THEN CHOOSE m \in Common(ns, b) : Common(ns, b) \subseteq Reach(ns, m)
    ELSE EmptyStr

\* the nodes of the arm that starts at head: from head up to, excluding, the merge point
ArmNodes(ns, b, head) == Reach(ns, head) \ Common(ns, b)

AllArmNodes(ns, b) == UNION {ArmNodes(ns, b, ArmHeads(b)[k]) : k \in 1..Len(ArmHeads(b))}

(***************************************************************************)
(* Reading the statement sequence.                                         *)
(***************************************************************************)
\* positions of the statement(s) emitted for node n (an else header carries its branch)
StmtsOf(cs, n) ==
    {k \in 1..Len(cs) : cs[k].node.name = n /\ cs[k].node_type \notin {"else", "elif"}}

DepthsOf(cs, n) == {cs[k].indent_level : k \in StmtsOf(cs, n)}

\* the body of the header at position h: what follows it at a greater depth
Body(cs, h) ==
    {k \in (h + 1)..Len(cs) : \A j \in (h + 1)..k : cs[j].indent_level > cs[h].indent_level}

\* the if / elif / else headers emitted for branch b, found next to its if statement
HeadersOf(cs, b) ==
    {h \in 1..Len(cs) :
       /\ cs[h].node_type \in {"if", "elif", "else"}
       /\ \E i \in StmtsOf(cs, b.name) :
            /\ i <= h
            /\ cs[i].node_type = "if"
            /\ cs[i].indent_level = cs[h].indent_level
            /\ \A j \in i..h : cs[j].indent_level >= cs[i].indent_level
            /\ \A j \in (i + 1)..h : cs[j].node_type = "if" => cs[j].indent_level > cs[i].indent_level}

BodyNames(cs, h) == {cs[k].node.name : k \in Body(cs, h)} \ {None}

(***************************************************************************)
(* Claims about the linearizer (checked under SpecGraph).                  *)
(***************************************************************************)

\* C1: for every branch of a well-formed graph whose arms meet, the merge point
\* pre_process_nodes obtained from find_common_descendent is the first node
\* reachable from every arm of the branch, whatever the arms' lengths.
C1_MergePointIsFirstCommon ==
    (pc = "done" /\ WellFormed(nodes)) =>
        \A k \in 1..Len(commons) :
            LET b == NodeOf(nodes, commons[k][1]) IN
            Common(nodes, b) # {} => commons[k][2] = MergePoint(nodes, b)

Malformed(ns) ==
    \/ StartNodes(ns) = {}
    \/ Cardinality(StartNodes(ns)) > 1
    \/ Cyclic(ns)

\* C2: linearizing a graph with no start node, several start nodes or a cyclic
\* successor chain raises a graph-structure error and yields no statements.
C2_MalformedGraphRaises ==
    (pc # "ready" /\ Malformed(nodes)) => (pc = "raised" /\ codeable_nodes = <<>>)

SingleBranch(ns) == WellFormed(ns) /\ Cardinality(Branches(ns)) = 1

\* C3: in a well-formed graph with a single branch, every node of every arm is
\* emitted at exactly the depth of the branch statement plus one, and the bodies
\* of two different headers of the branch share no node.
C3_ArmsOneDeeperAndDisjoint ==
    (pc = "done" /\ SingleBranch(nodes)) =>
        \A b \in Branches(nodes) :
            /\ \E d \in DepthsOf(codeable_nodes, b.name) :
                 \A n \in AllArmNodes(nodes, b) : DepthsOf(codeable_nodes, n) = {d + 1}
            /\ \A h1, h2 \in HeadersOf(codeable_nodes, b) :
                 h1 # h2 => BodyNames(codeable_nodes, h1) \cap BodyNames(codeable_nodes, h2) = {}

\* inner is a branch inside an arm of outer
NestedIn(ns, inner, outer) == inner.name \in AllArmNodes(ns, outer)

\* C4: for a branch inside an arm of another branch, the inner arms are emitted
\* one level deeper than the inner branch statement, and the inner branch, its
\* arms and its merge point (when that lies in the outer arm) are all emitted
\* deeper than the outer branch statement.
C4_NestedBranchStaysInsideArm ==
    (pc = "done" /\ WellFormed(nodes)) =>
        \A inner, outer \in Branches(nodes) :
            NestedIn(nodes, inner, outer) =>
                /\ \E di \in DepthsOf(codeable_nodes, inner.name) :
                     \A n \in AllArmNodes(nodes, inner) : DepthsOf(codeable_nodes, n) = {di + 1}
                /\ \E do \in DepthsOf(codeable_nodes, outer.name) :
                     \A n \in ({inner.name} \cup AllArmNodes(nodes, inner)
                               \cup ({MergePoint(nodes, inner)} \cap AllArmNodes(nodes, outer))) :
                        /\ DepthsOf(codeable_nodes, n) # {}
                        /\ \A d \in DepthsOf(codeable_nodes, n) : d > do

\* the arms of b never reconverge: no node is reached from two of its arms
ArmsNeverMeet(ns, b) ==
    \A i, j \in 1..Len(ArmHeads(b)) :
        i # j => Reach(ns, ArmHeads(b)[i]) \cap Reach(ns, ArmHeads(b)[j]) = {}

EndsOf(ns, head) == {n \in Reach(ns, head) : NodeOf(ns, n).node_type = "end"}

\* C5: when the arms of a branch never reconverge and each ends at its own end
\* node, each arm's end node is emitted exactly once, as an end (return)
\* statement, at the branch's depth plus one.
C5_IndependentReturnPaths ==
    (pc = "done" /\ WellFormed(nodes)) =>
        \A b \in Branches(nodes) :
            (ArmsNeverMeet(nodes, b) /\ b.name \in {commons[k][1] : k \in 1..Len(commons)}) =>
                \E d \in DepthsOf(codeable_nodes, b.name) :
                    \A k \in 1..Len(ArmHeads(b)) :
                        \A e \in EndsOf(nodes, ArmHeads(b)[k]) :
                            /\ Cardinality(StmtsOf(codeable_nodes, e)) = 1
                            /\ \A i \in StmtsOf(codeable_nodes, e) :
                                 /\ codeable_nodes[i].node_type = "end"
                                 /\ codeable_nodes[i].indent_level = d + 1

\* C6: a well-formed graph linearizes to the same statement sequence whatever
\* the order of its node list: the same as with the list in traversal order.
C6_NodeListOrderIrrelevant ==
    (pc = "done" /\ WellFormed(nodes)) =>
        codeable_nodes = pre_process_nodes(canon).codeable

(***************************************************************************)
(* Function tree linker (src/codex/develop/compile.py).                    *)
(* A string is a sequence of tokens <<kind, id, "ok" | "bad">>; a text     *)
(* parses (ast.parse) iff it holds no "bad" token.                         *)
(***************************************************************************)
Nothing == [none |-> TRUE, val |-> <<>>]          \* Python None in an Optional slot
Some(x) == [none |-> FALSE, val |-> x]

NL == <<"nl", 0, "ok">>                            \* "\n"
Lit(k) == <<"lit", k, "ok">>                       \* a literal piece of an f-string
BodyTok(i, q) == <<"body", i, q>>                  \* the text of Function i's functionCode
ImportTok(i, q) == <<"import", i, q>>              \* one import line of Function i
ClassTok(t) == <<"class", t, "ok">>                \* "class <t>(BaseModel): ..." with its fields
BaseModelImport == <<<<"import", 0, "ok">>>>       \* "from pydantic import BaseModel"

RECURSIVE Join(_, _)
Join(strs, sep) ==
    IF strs = <<>> THEN <<>>
    ELSE IF Len(strs) = 1 THEN strs[1]
    ELSE strs[1] \o sep \o Join(Tail(strs), sep)

\* ast.parse(text) returns (TRUE) or raises (FALSE)
ast_parse(text) == \A k \in 1..Len(text) : text[k][3] # "bad"

(***************************************************************************)
(* ObjectType rows.  T1 has primitive fields only, T2 nests T1, T3 and T4  *)
(* reference each other.                                                   *)
(***************************************************************************)
TypeIds == 1..4

ObjectField(typeId) == [typeId |-> typeId]         \* typeId 0: a primitive (typeId is None)

FieldsOf(t) ==
    IF t = 1 THEN <<ObjectField(0)>>
    ELSE IF t = 2 THEN <<ObjectField(1), ObjectField(0)>>
    ELSE IF t = 3 THEN <<ObjectField(4)>>
    ELSE <<ObjectField(3)>>

(***************************************************************************)
(* process_object_field / process_object_type: return the generated text   *)
(* and the object_type_ids set as the call left it (the set is mutated in  *)
(* place in the source).                                                   *)
(***************************************************************************)
RECURSIVE process_object_field(_, _), process_object_type(_, _), pot_fields(_, _, _, _)

process_object_field(field, object_type_ids) ==
    IF field.typeId = 0 \/ field.typeId \in object_type_ids
    THEN [text |-> <<>>, ids |-> object_type_ids]
    ELSE process_object_type(field.typeId, object_type_ids \cup {field.typeId})

\* the loop over obj.Fields: collects sub_types
pot_fields(fields, k, sub_types, object_type_ids) ==
    IF k > Len(fields) THEN [sub_types |-> sub_types, ids |-> object_type_ids]
    ELSE IF fields[k].typeId # 0
    THEN LET r == process_object_field(fields[k], object_type_ids)
         IN pot_fields(fields, k + 1, Append(sub_types, r.text), r.ids)
    ELSE pot_fields(fields, k + 1, sub_types, object_type_ids)

process_object_type(obj, object_type_ids) ==
    LET r == pot_fields(FieldsOf(obj), 1, <<>>, object_type_ids)
    IN [text |-> Join(r.sub_types, <<NL, NL>>) \o <<NL, NL, ClassTok(obj)>>,
        ids |-> r.ids]

(***************************************************************************)
(* recursive_compile_route.                                                *)
(***************************************************************************)
CompiledFunction(packages, imports, code, pydantic_models) ==
    [ok |-> TRUE, packages |-> packages, imports |-> imports, code |-> code,
     pydantic_models |-> pydantic_models]

\* raise ValueError(message)
ValueError(what, id, message) ==
    [ok |-> FALSE, exc |-> "ValueError", what |-> what, id |-> id, text |-> message]

\* mutant: the message names the parser's error but leaves out the text
SyntaxErrorMessage_without_text(code) == <<Lit(1), Lit(2), Lit(3)>>

SyntaxErrorMessage(code) == <<Lit(1), Lit(2), Lit(3)>> \o code

\* lines 99-108: the models of the function's arguments and return value,
\* with one fresh new_object_types set per call
RECURSIVE args_loop(_, _, _, _)
args_loop(args, k, models, new_object_types) ==
    IF k > Len(args) THEN [models |-> models, ids |-> new_object_types]
    ELSE LET r == process_object_field(args[k], new_object_types)
         IN args_loop(args, k + 1, Append(models, r.text), r.ids)

own_models(function) ==
    LET a == IF function.FunctionArgs.none THEN [models |-> <<>>, ids |-> {}]
             ELSE args_loop(function.FunctionArgs.val, 1, <<>>, {})
    IN IF function.FunctionReturn.none THEN a.models
       ELSE Append(a.models, process_object_field(function.FunctionReturn.val, a.ids).text)

RECURSIVE recursive_compile_route(_, _), children_loop(_, _, _, _)

\* lines 136-142: acc is the locals, or the exception a child raised
children_loop(d, children, k, acc) ==
    IF k > Len(children) THEN acc
    ELSE LET compiled_function == recursive_compile_route(d, children[k])
         IN IF ~compiled_function.ok THEN compiled_function
            ELSE children_loop(d, children, k + 1,
                   CompiledFunction(acc.packages \o compiled_function.packages,
                                    acc.imports \o compiled_function.imports,
                                    acc.code \o <<NL, NL>> \o compiled_function.code,
                                    acc.pydantic_models \o compiled_function.pydantic_models))

\* mutant: a leaf without functionCode is linked as if its body were empty
leaf_branch_unchecked(function, pydantic_models) ==
    LET body == IF function.functionCode.none THEN <<>> ELSE function.functionCode.val
        code == Join(function.importStatements, <<NL>>) \o <<NL, NL>> \o body
    IN IF ~ast_parse(code)
       THEN ValueError("syntax", function.id, SyntaxErrorMessage(code))
       ELSE CompiledFunction(function.Packages, function.importStatements, body,
                             pydantic_models)

leaf_branch(function, pydantic_models) ==
    IF function.functionCode.none
    THEN ValueError("leaf code required", function.id, <<Lit(4)>>)
    ELSE LET code == Join(function.importStatements, <<NL>>) \o <<NL, NL>>
                     \o function.functionCode.val
         IN IF ~ast_parse(code)
            THEN ValueError("syntax", function.id, SyntaxErrorMessage(code))
            ELSE CompiledFunction(function.Packages, function.importStatements,
                                  function.functionCode.val, pydantic_models)

\* mutant: the composite's own body is put before its children's code
composite_branch_own_body_first(d, function) ==
    LET c == children_loop(d, function.ChildFunction.val, 1,
                           CompiledFunction(<<>>, <<>>, <<>>, <<>>))
    IN IF ~c.ok THEN c
       ELSE LET packages == c.packages \o function.Packages
                imports == c.imports \o function.importStatements
            IN IF function.functionCode.none
               THEN ValueError("code required", function.id, <<Lit(5)>>)
               ELSE LET code == function.functionCode.val \o <<NL, NL>> \o c.code
                        check_code == Join(imports, <<NL>>) \o <<NL, NL>> \o code
                    IN IF ~ast_parse(check_code)
                       THEN ValueError("syntax", function.id, SyntaxErrorMessage(code))
                       ELSE CompiledFunction(packages, imports, code, c.pydantic_models)

composite_branch(d, function) ==
    LET c == children_loop(d, function.ChildFunction.val, 1,
                           CompiledFunction(<<>>, <<>>, <<>>, <<>>))
    IN IF ~c.ok THEN c
       ELSE LET packages == c.packages \o function.Packages
                imports == c.imports \o function.importStatements
            IN IF function.functionCode.none
               THEN ValueError("code required", function.id, <<Lit(5)>>)
               ELSE LET code == c.code \o <<NL, NL>> \o function.functionCode.val
                        check_code == Join(imports, <<NL>>) \o <<NL, NL>> \o code
                    IN IF ~ast_parse(check_code)
                       THEN ValueError("syntax", function.id, SyntaxErrorMessage(code))
                       ELSE CompiledFunction(packages, imports, code, c.pydantic_models)

recursive_compile_route(d, id) ==
    LET function == d[id]
        pydantic_models == own_models(function)
    IN IF function.ChildFunction.none
       THEN leaf_branch(function, pydantic_models)
       ELSE composite_branch(d, function)

(***************************************************************************)
(* The fragment trees the linker is run on: Function rows 1..n, row 1 the  *)
(* route's root, every other row the child of an earlier one; children are *)
(* listed in id order.                                                     *)
(***************************************************************************)
Texts == {"nocode", "good", "badbody", "badimport", "empty"}
Typings == {"prim", "t1", "t2"}

functionCodeOf(i, text) ==
    IF text = "nocode" THEN Nothing
    ELSE IF text = "empty" THEN Some(<<>>)
    ELSE IF text = "badbody" THEN Some(<<BodyTok(i, "bad")>>)
    ELSE Some(<<BodyTok(i, "ok")>>)

importStatementsOf(i, text) ==
    IF text = "empty" THEN <<>>
    ELSE IF text = "badimport" THEN <<<<ImportTok(i, "bad")>>>>
    ELSE <<<<ImportTok(i, "ok")>>>>

FunctionArgsOf(typing) ==
    IF typing = "prim" THEN Some(<<ObjectField(0)>>)
    ELSE IF typing = "t1" THEN Some(<<ObjectField(1)>>)
    ELSE Some(<<ObjectField(2), ObjectField(1)>>)

FunctionReturnOf(typing) ==
    IF typing = "prim" THEN Nothing
    ELSE IF typing = "t1" THEN Some(ObjectField(0))
    ELSE Some(ObjectField(1))

\* Function i requires one package; odd and even rows share a package name
PackagesOf(i) == <<[id |-> i, packageName |-> i % 2, version |-> i]>>

ChildrenOf(parent, n, i) == SelectSeq([k \in 1..n |-> k], LAMBDA k : k > 1 /\ parent[k] = i)

Function(i, n, parent, text, typing) ==
    [id |-> i,
     functionCode |-> functionCodeOf(i, text),
     importStatements |-> importStatementsOf(i, text),
     Packages |-> PackagesOf(i),
     FunctionArgs |-> FunctionArgsOf(typing),
     FunctionReturn |-> FunctionReturnOf(typing),
     typing |-> typing,
     ChildFunction |-> IF ChildrenOf(parent, n, i) = <<>> THEN Nothing
                       ELSE Some(ChildrenOf(parent, n, i))]

Parents(n) == {p \in [1..n -> 0..n] : \A k \in 1..n : p[k] < k /\ (k > 1 => p[k] >= 1)}

InitLink ==
    /\ \E n \in 1..MaxFuncs :
         \E parent \in Parents(n) :
           \E text \in [1..n -> Texts] :
             \E typing \in [1..n -> Typings] :
               db = [i \in 1..n |-> Function(i, n, parent, text[i], typing[i])]
    /\ pc = "ready"
    /\ linked = NoLinked
    /\ compiled_routes = <<>>
    /\ IdleExcept({"link"})

\* lines 51-66 of compile_route: the row handed to CompiledRoute.prisma().create
CompiledRouteCreateInput(compiled_function, route_root_func) ==
    [Packages |-> {compiled_function.packages[k].id : k \in 1..Len(compiled_function.packages)},
     mainFunctionName |-> route_root_func,
     compiledCode |-> Join(Append(compiled_function.imports, BaseModelImport), <<NL>>)
                      \o <<NL, NL>>
                      \o Join(compiled_function.pydantic_models, <<NL, NL>>)
                      \o <<NL, NL>>
                      \o compiled_function.code]

\* compile_route(ids, route_root_func, api_route) on the root row
compile_route ==
    /\ pc = "ready"
    /\ LET compiled_function == recursive_compile_route(db, 1) IN
         /\ linked' = compiled_function
         /\ IF compiled_function.ok
            THEN /\ compiled_routes' =
                      Append(compiled_routes, CompiledRouteCreateInput(compiled_function, 1))
                 /\ pc' = "done"
            ELSE /\ compiled_routes' = compiled_routes
                 /\ pc' = "raised"
    /\ UNCHANGED <<db, graphVars, renderVars, reqVars, assembleVars, concVars, bundleVars,
                   expandVars>>

NextLink == compile_route

SpecLink == InitLink /\ [][NextLink]_vars

(***************************************************************************)
(* Reading a fragment tree and a linked module.                            *)
(***************************************************************************)
IsLeaf(function) == function.ChildFunction.none

\* the fragments in link order: children first, in declaration order, then the parent
RECURSIVE PostOrder(_, _), PostOrderAll(_, _)
PostOrder(d, i) ==
    IF IsLeaf(d[i]) THEN <<i>> ELSE PostOrderAll(d, d[i].ChildFunction.val) \o <<i>>

PostOrderAll(d, ids) ==
    IF ids = <<>> THEN <<>> ELSE PostOrder(d, Head(ids)) \o PostOrderAll(d, Tail(ids))

\* imports + body text of a fragment, as the leaf branch hands it to the parser
SourceOf(function) ==
    Join(function.importStatements, <<NL>>) \o <<NL, NL>> \o function.functionCode.val

Unparsable(function) ==
    /\ ~function.functionCode.none
    /\ \E k \in 1..Len(SourceOf(function)) : SourceOf(function)[k][3] = "bad"

FailsAlone(function) == function.functionCode.none \/ Unparsable(function)

\* the first fragment, in link order, that cannot be linked (0: there is none)
FirstFailing(d) ==
    LET po == PostOrder(d, 1)
        bad == {k \in 1..Len(po) : FailsAlone(d[po[k]])}
    IN IF bad = {} THEN 0 ELSE po[CHOOSE k \in bad : \A j \in bad : k <= j]

Contains(text, part) ==
    \E k \in 0..(Len(text) - Len(part)) : SubSeq(text, k + 1, k + Len(part)) = part

OfKind(text, kind) == SelectSeq(text, LAMBDA tok : tok[1] = kind)

\* the structured types a fragment names as argument or return type
DirectTypes(function) ==
    ((IF function.FunctionArgs.none THEN {}
      ELSE {function.FunctionArgs.val[k].typeId : k \in 1..Len(function.FunctionArgs.val)})
     \cup (IF function.FunctionReturn.none THEN {} ELSE {function.FunctionReturn.val.typeId}))
    \ {0}

FieldTypes(t) == {FieldsOf(t)[k].typeId : k \in 1..Len(FieldsOf(t))} \ {0}

\* the type declarations of a linked module, in order, as type ids
Declarations(compiled_function) ==
    LET cls == OfKind(Flatten(compiled_function.pydantic_models), "class")
    IN [k \in 1..Len(cls) |-> cls[k][2]]

(***************************************************************************)
(* Claims about the linker (checked under SpecLink).                       *)
(***************************************************************************)

\* C7: when two different fragments of the tree reference the same structured
\* type, the linked module declares that type exactly once, and before every
\* declaration that uses it.
C7_SharedTypeDeclaredOnce ==
    pc = "done" =>
        \A t \in TypeIds :
            (\E f, g \in 1..Len(db) : f # g /\ t \in DirectTypes(db[f]) \cap DirectTypes(db[g])) =>
                LET decl == Declarations(linked) IN
                /\ Cardinality({k \in 1..Len(decl) : decl[k] = t}) = 1
                /\ \A k, u \in 1..Len(decl) :
                     (decl[k] = t /\ t \in FieldTypes(decl[u])) => k < u

\* C8: when the first fragment that cannot be linked is a leaf whose imports +
\* body text do not parse, the link raises the syntax error whose message holds
\* that text verbatim; and whenever some leaf of the tree does not parse,
\* compile_route raises and creates no compiled route.
C8_UnparsableLeafRaisesWithText ==
    pc # "ready" =>
        /\ (\E f \in 1..Len(db) : IsLeaf(db[f]) /\ Unparsable(db[f])) =>
               (pc = "raised" /\ ~linked.ok /\ compiled_routes = <<>>)
        /\ \A f \in 1..Len(db) :
               (f = FirstFailing(db) /\ IsLeaf(db[f]) /\ Unparsable(db[f])) =>
                   /\ ~linked.ok
                   /\ linked.what = "syntax"
                   /\ linked.id = f
                   /\ Contains(linked.text, SourceOf(db[f]))

\* a leaf below the root's children failed to parse and its text is in the message
C8_Witness ==
    /\ pc = "raised"
    /\ linked.what = "syntax"
    /\ IsLeaf(db[linked.id])
    /\ linked.id = FirstFailing(db)
    /\ linked.id = 3
    /\ db[2].ChildFunction = Some(<<3>>)
    /\ Contains(linked.text, SourceOf(db[3]))
    /\ compiled_routes = <<>>

C10_ChildrenInOrderThenOwnBody ==
    pc = "done" =>
        LET po == PostOrder(db, 1)
        IN OfKind(linked.code, "body")
           = Flatten([k \in 1..Len(po) |-> db[po[k]].functionCode.val])

\* a root with two children (fetch, parse) linked: 2's body, 3's body, the root's body
C10_Witness ==
    /\ pc = "done"
    /\ Len(db) = 3
    /\ db[1].ChildFunction = Some(<<2, 3>>)
    /\ OfKind(linked.code, "body") = <<BodyTok(2, "ok"), BodyTok(3, "ok"), BodyTok(1, "ok")>>

\* the Package rows the fragments of the tree declare, in link order
AllPackages(d) ==
    LET po == PostOrder(d, 1) IN Flatten([k \in 1..Len(po) |-> d[po[k]].Packages])

\* the Package rows a compiled route is connected to: its dependency manifest
Manifest(d, compiled_route) ==
    {p \in Range(AllPackages(d)) : p.id \in compiled_route.Packages}

\* C11: the dependency manifest of a linked route holds every package name a
\* fragment of the tree declares, no two of its entries have the same package
\* name, and the entry kept for a name is the first declared in link order.
C11_ManifestDedupByName ==
    pc = "done" =>
        LET all == AllPackages(db)
            manifest == Manifest(db, compiled_routes[1])
        IN /\ \A k \in 1..Len(all) : \E p \in manifest : p.packageName = all[k].packageName
           /\ \A p, q \in manifest : p.packageName = q.packageName => p = q
           /\ \A p \in manifest :
                \E k \in 1..Len(all) :
                    /\ all[k] = p
                    /\ \A j \in 1..(k - 1) : all[j].packageName # p.packageName

\* C18: in the statement sequence of a well-formed graph every node is emitted
\* exactly once (a node an arm consumed is not emitted again), and the merge
\* point of every branch is emitted after all the arms' statements, outside
\* every body of the branch, at the depth of the branch statement.
C18_EveryNodeOnceMergeAfterArms ==
    (pc = "done" /\ WellFormed(nodes)) =>
        /\ \A n \in Names(nodes) : Cardinality(StmtsOf(codeable_nodes, n)) = 1
        /\ \A b \in Branches(nodes) :
             MergePoint(nodes, b) # EmptyStr =>
                 \A i \in StmtsOf(codeable_nodes, MergePoint(nodes, b)) :
                     /\ codeable_nodes[i].indent_level \in DepthsOf(codeable_nodes, b.name)
                     /\ \A n \in AllArmNodes(nodes, b) :
                          \A j \in StmtsOf(codeable_nodes, n) : j < i
                     /\ \A h \in HeadersOf(codeable_nodes, b) :
                          h < i /\ i \notin Body(codeable_nodes, h)

\* C19: every structured type a fragment of the tree names as argument or
\* return type, composite fragments included, is declared in the linked module.
C19_EveryReferencedTypeDeclared ==
    pc = "done" =>
        \A f \in 1..Len(db) :
            \A t \in DirectTypes(db[f]) : InSeq(t, Declarations(linked))

\* the body tokens of what linking fragment f alone returns
LinkedBodyOf(d, f) == OfKind(recursive_compile_route(d, f).code, "body")

\* C20: linking a composite fragment that has no body text of its own, and
\* whose children all link, succeeds, and its linked body is the concatenation
\* of its children's linked bodies; the route of such a root is created.
C20_PureCompositeLinks ==
    pc # "ready" =>
        \A f \in 1..Len(db) :
            (/\ ~IsLeaf(db[f])
             /\ db[f].functionCode.none
             /\ \A c \in Range(db[f].ChildFunction.val) : recursive_compile_route(db, c).ok) =>
                /\ recursive_compile_route(db, f).ok
                /\ LinkedBodyOf(db, f)
                   = Flatten([k \in 1..Len(db[f].ChildFunction.val) |->
                                 LinkedBodyOf(db, db[f].ChildFunction.val[k])])
                /\ f = 1 => (pc = "done" /\ Len(compiled_routes) = 1)

(***************************************************************************)
(* Character strings (src/codex/compile.py works on str): a string is a    *)
(* sequence of character tokens.                                           *)
(***************************************************************************)
Ch(c) == <<"ch", c, "ok">>

S(chars) == [k \in 1..Len(chars) |-> Ch(chars[k])]

\* truthiness of an Optional[str]: None and "" are falsy
Truthy(x) == ~x.none /\ x.val # <<>>

\* str.splitlines() for "\n" line ends
RECURSIVE splitlines(_)
splitlines(text) ==
    IF text = <<>> THEN <<>>
    ELSE LET ends == {k \in 1..Len(text) : text[k] = NL} IN
         IF ends = {} THEN <<text>>
         ELSE LET i == CHOOSE k \in ends : \A j \in ends : k <= j
              IN <<SubSeq(text, 1, i - 1)>> \o splitlines(SubSeq(text, i + 1, Len(text)))

(***************************************************************************)
(* generate_requirements_txt (src/codex/compile.py).                       *)
(***************************************************************************)
MaxPkgs == 3       \* most packages in a requirements list

RequiredPackage(package_name, version, specifier) ==
    [package_name |-> package_name, version |-> version, specifier |-> specifier]

\* resolved_packages, a defaultdict(list): its keys in insertion order, each
\* with the list of (version, specifier) pairs appended to it
RECURSIVE aggregate(_, _, _)
aggregate(pkgs, k, resolved_packages) ==
    IF k > Len(pkgs) THEN resolved_packages
    ELSE LET package == pkgs[k]
             pair == <<package.version, package.specifier>>
             at == {i \in 1..Len(resolved_packages) :
                      resolved_packages[i].key = package.package_name}
         IN aggregate(pkgs, k + 1,
              IF at = {}
              THEN Append(resolved_packages, [key |-> package.package_name, vals |-> <<pair>>])
              ELSE [i \in 1..Len(resolved_packages) |->
                      IF i \in at
                      THEN [resolved_packages[i] EXCEPT !.vals = Append(@, pair)]
                      ELSE resolved_packages[i]])

\* mutant: the last pair declared for the package is picked
last_versions_specifiers(versions_specifiers) == versions_specifiers[Len(versions_specifiers)]

\* line 99: versions_specifiers[0]
first_versions_specifiers(versions_specifiers) == versions_specifiers[1]

requirement(package, versions_specifiers) ==
    LET version == first_versions_specifiers(versions_specifiers)[1]
        specifier == first_versions_specifiers(versions_specifiers)[2]
    IN IF Truthy(version) /\ Truthy(specifier) THEN package \o specifier.val \o version.val
       ELSE IF Truthy(version) THEN package \o S(<<"=", "=">>) \o version.val
       ELSE package

generate_requirements_txt(pkgs) ==
    LET resolved_packages == aggregate(pkgs, 1, <<>>)
    IN Join([i \in 1..Len(resolved_packages) |->
               requirement(resolved_packages[i].key, resolved_packages[i].vals)], <<NL>>)

\* the requirements lists generate_requirements_txt is run on
RequiredPackages ==
    {RequiredPackage(n, v, s) :
        n \in {S(<<"a">>), S(<<"b">>)},
        v \in {Nothing, Some(<<>>), Some(S(<<"1">>)), Some(S(<<"2">>))},
        s \in {Nothing, Some(S(<<">", "=">>))}}

InitRequirements ==
    /\ \E n \in 0..MaxPkgs : requirements \in [1..n -> RequiredPackages]
    /\ requirements_txt = <<>>
    /\ pc = "ready"
    /\ IdleExcept({"req"})

GenerateRequirementsTxt ==
    /\ pc = "ready"
    /\ requirements_txt' = generate_requirements_txt(requirements)
    /\ pc' = "done"
    /\ UNCHANGED <<requirements, graphVars, linkVars, renderVars, assembleVars, concVars,
                   bundleVars,
                   expandVars>>

NextRequirements == GenerateRequirementsTxt

SpecRequirements == InitRequirements /\ [][NextRequirements]_vars

\* the positions of the first occurrence of each package name, in list order
FirstOccurrences(pkgs) ==
    SelectSeq([k \in 1..Len(pkgs) |-> k],
              LAMBDA k : \A j \in 1..(k - 1) : pkgs[j].package_name # pkgs[k].package_name)

\* the line the claim gives for one package
RequirementLine(package) ==
    IF Truthy(package.version) /\ Truthy(package.specifier)
    THEN package.package_name \o package.specifier.val \o package.version.val
    ELSE IF Truthy(package.version)
    THEN package.package_name \o S(<<"=", "=">>) \o package.version.val
    ELSE package.package_name

\* C12: generate_requirements_txt emits one line per distinct package name, in
\* order of first appearance, built from the version/specifier pair of the
\* name's first occurrence: name+specifier+version when both are present,
\* name==version when only the version is, and the bare name otherwise.
C12_OneLinePerNameFirstPairWins ==
    pc = "done" =>
        LET firsts == FirstOccurrences(requirements)
        IN splitlines(requirements_txt)
           = [k \in 1..Len(firsts) |-> RequirementLine(requirements[firsts[k]])]

\* a conflicting later pin of "a" was ignored and "b" keeps its place after "a"
C12_Witness ==
    /\ pc = "done"
    /\ Len(requirements) = 3
    /\ requirements[1] = RequiredPackage(S(<<"a">>), Some(S(<<"1">>)), Some(S(<<">", "=">>)))
    /\ requirements[2] = RequiredPackage(S(<<"b">>), Some(S(<<"2">>)), Nothing)
    /\ requirements[3] = RequiredPackage(S(<<"a">>), Some(S(<<"2">>)), Nothing)
    /\ requirements_txt = S(<<"a", ">", "=", "1">>) \o <<NL>> \o S(<<"b", "=", "=", "2">>)

(***************************************************************************)
(* CodeableNode.__str__ and graph_to_code (src/codex/compile.py).          *)
(***************************************************************************)
MaxParams == 2     \* most parameters of a node

Param(name, param_type) == [name |-> name, param_type |-> param_type]

\* a NodeDef with the fields __str__ reads
NodeDefP(name, type, next, input_params, output_params, python_if_condition) ==
    [name |-> name, node_type |-> type, next_node_name |-> next,
     true_next_node_name |-> None, false_next_node_name |-> None, elifs |-> <<>>,
     input_params |-> input_params, output_params |-> output_params,
     python_if_condition |-> python_if_condition]

\* str.replace(old, new): every non-overlapping occurrence, left to right
RECURSIVE str_replace(_, _, _)
str_replace(s, old, new) ==
    IF old = <<>>
    THEN (IF s = <<>> THEN new ELSE new \o <<Head(s)>> \o str_replace(Tail(s), old, new))
    ELSE IF Len(s) < Len(old) THEN s
    ELSE IF SubSeq(s, 1, Len(old)) = old
    THEN new \o str_replace(SubSeq(s, Len(old) + 1, Len(s)), old, new)
    ELSE <<Head(s)>> \o str_replace(Tail(s), old, new)

\* out[:-2]
DropLast2(out) == SubSeq(out, 1, Len(out) - 2)

\* str * n
RECURSIVE Repeat(_, _)
Repeat(str, n) == IF n <= 0 THEN <<>> ELSE str \o Repeat(str, n - 1)

\* the loops "out += f'{param.name}, '" over a parameter list
NamesComma(params) ==
    Flatten([k \in 1..Len(params) |-> params[k].name \o S(<<",", " ">>)])

CodeableNode_str(self) ==
    IF self.node_type = "start"
    THEN LET out == S(<<"d", "e", "f", " ">>) \o self.node.name \o S(<<"(">>)
         IN (IF self.node.output_params # <<>>
             THEN DropLast2(out \o Flatten([k \in 1..Len(self.node.output_params) |->
                                self.node.output_params[k].name \o S(<<":", " ">>)
                                \o self.node.output_params[k].param_type \o S(<<",", " ">>)]))
             ELSE out)
            \o S(<<")", ":">>)
    ELSE IF self.node_type = "if"
    THEN S(<<"i", "f", " ">>) \o self.node.python_if_condition \o S(<<":">>)
    ELSE IF self.node_type = "elif"
    THEN S(<<"e", "l", "i", "f", " ">>) \o self.elseif.python_condition \o S(<<":">>)
    ELSE IF self.node_type = "else"
    THEN S(<<"e", "l", "s", "e", ":">>)
    ELSE IF self.node_type = "action"
    THEN LET out == IF self.node.output_params # <<>>
                    THEN DropLast2(NamesComma(self.node.output_params)) \o S(<<" ", "=", " ">>)
                    ELSE <<>>
             call == out \o self.node.name \o S(<<"(">>)
         IN (IF self.node.input_params # <<>>
             THEN DropLast2(call \o NamesComma(self.node.input_params))
             ELSE call)
            \o S(<<")">>)
    ELSE \* "end"
         IF self.node.input_params # <<>>
         THEN IF Len(self.node.input_params) = 1
              THEN S(<<"r", "e", "t", "u", "r", "n", " ">>) \o self.node.input_params[1].name
              ELSE DropLast2(S(<<"r", "e", "t", "u", "r", "n", " ", "(">>)
                             \o NamesComma(self.node.input_params))
                   \o S(<<")">>)
         ELSE <<>>

indent_str == S(<<" ", " ", " ", " ">>)

graph_to_code(cns, fname) ==
    Flatten([k \in 1..Len(cns) |->
        LET node == cns[k] IN
        IF node.node_type = "start"
        THEN Repeat(indent_str, node.indent_level)
             \o str_replace(CodeableNode_str(node), node.node.name, fname) \o <<NL>>
        ELSE Repeat(indent_str, node.indent_level) \o CodeableNode_str(node) \o <<NL>>])

\* the statement lists graph_to_code is run on: start, an optional
\* if / elif / else with one action per arm, one action, end
ParamLists ==
    UNION {[1..n -> {Param(name, type) : name \in {S(<<"x">>), S(<<"f", "x">>)},
                                         type \in {S(<<"i", "n", "t">>),
                                                    S(<<"d", "i", "c", "t">>)}}] :
             n \in 0..MaxParams}

Statements(name, outs, ins, branch) ==
    LET act(n, d) == CodeableNode(d, "action",
                        NodeDefP(S(<<n>>), "action", None, outs, <<Param(S(<<n>>), S(<<"T">>))>>,
                                 <<>>), NoElseIf)
        br == NodeDefP(S(<<"b">>), "if", None, <<>>, <<>>, S(<<"x", ">", "0">>))
    IN <<CodeableNode(0, "start", NodeDefP(name, "start", None, <<>>, outs, <<>>), NoElseIf)>>
       \o (IF branch
           THEN <<CodeableNode(1, "if", br, NoElseIf), act("t", 2),
                  CodeableNode(1, "elif", NoNodeDef, ElseIf(S(<<"x", "<", "0">>), None)),
                  act("e", 2),
                  CodeableNode(1, "else", br, NoElseIf), act("u", 2)>>
           ELSE <<>>)
       \o <<act("m", 1),
            CodeableNode(1, "end", NodeDefP(S(<<"z">>), "end", None, ins, <<>>, <<>>), NoElseIf)>>

InitRender ==
    /\ \E name \in {S(<<"f">>), S(<<"g", "o">>), S(<<"d">>)},
          outs \in ParamLists, ins \in ParamLists, branch \in BOOLEAN :
         /\ \A k \in 1..Len(ins) : ins[k].param_type = S(<<"i", "n", "t">>)
         /\ codeable_nodes = Statements(name, outs, ins, branch)
    /\ function_name \in {S(<<"h">>), S(<<"f", "_", "r">>)}
    /\ graph_script = <<>>
    /\ nodes = <<>> /\ canon = <<>> /\ commons = <<>>
    /\ pc = "ready"
    /\ IdleExcept({"graph", "render"})

GraphToCode ==
    /\ pc = "ready"
    /\ graph_script' = graph_to_code(codeable_nodes, function_name)
    /\ pc' = "done"
    /\ UNCHANGED <<function_name, graphVars, linkVars, reqVars, assembleVars, concVars,
                   bundleVars,
                   expandVars>>

NextRender == GraphToCode

SpecRender == InitRender /\ [][NextRender]_vars

\* the line of graph_script emitted for statement k, without its indentation
\* (every statement gives one line: no name or condition holds a line end)
StatementLine(k) ==
    LET line == splitlines(graph_script)[k]
        n == Len(Repeat(indent_str, codeable_nodes[k].indent_level))
    IN IF Len(line) >= n THEN SubSeq(line, n + 1, Len(line)) ELSE line

\* C16: the start statement is rendered as the header "def <exported_name>(
\* <name>: <type>, ...):" with the output parameters of the start node in
\* order, names and types unchanged, whatever the start node's name.
C16_StartHeaderRenamed ==
    pc = "done" =>
        \A k \in 1..Len(codeable_nodes) :
            codeable_nodes[k].node_type = "start" =>
                LET outs == codeable_nodes[k].node.output_params
                IN StatementLine(k)
                   = S(<<"d", "e", "f", " ">>) \o function_name \o S(<<"(">>)
                     \o Join([j \in 1..Len(outs) |->
                                outs[j].name \o S(<<":", " ">>) \o outs[j].param_type],
                             S(<<",", " ">>))
                     \o S(<<")", ":">>)

\* C17: every end statement is rendered as a return statement: "return <name>"
\* for one input parameter, "return (<a>, <b>, ...)" in declaration order for
\* several, and a line that starts with "return" in every case.
C17_EndIsReturn ==
    pc = "done" =>
        \A k \in 1..Len(codeable_nodes) :
            codeable_nodes[k].node_type = "end" =>
                LET ins == codeable_nodes[k].node.input_params
                IN /\ Len(StatementLine(k)) >= Len(S(<<"r", "e", "t", "u", "r", "n">>))
                   /\ SubSeq(StatementLine(k), 1, Len(S(<<"r", "e", "t", "u", "r", "n">>)))
                      = S(<<"r", "e", "t", "u", "r", "n">>)
                   /\ Len(ins) = 1 =>
                        StatementLine(k) = S(<<"r", "e", "t", "u", "r", "n", " ">>) \o ins[1].name
                   /\ Len(ins) > 1 =>
                        StatementLine(k)
                        = S(<<"r", "e", "t", "u", "r", "n", " ", "(">>)
                          \o Join([j \in 1..Len(ins) |-> ins[j].name], S(<<",", " ">>))
                          \o S(<<")">>)

(***************************************************************************)
(* compile_graph (src/codex/compile.py).                                   *)
(***************************************************************************)
MaxImpl == 2       \* most node implementations of a graph

\* str.strip(): leading and trailing blanks removed
RECURSIVE str_lstrip(_)
str_lstrip(s) == IF s # <<>> /\ Head(s) = Ch(" ") THEN str_lstrip(Tail(s)) ELSE s

str_strip(s) == Reverse(str_lstrip(Reverse(str_lstrip(s))))

\* str.lower() on the letters the names hold
str_lower(s) ==
    [k \in 1..Len(s) |->
        IF s[k] = Ch("G") THEN Ch("g") ELSE IF s[k] = Ch("A") THEN Ch("a") ELSE s[k]]

convert_graph_to_code(ns, fname) == graph_to_code(pre_process_nodes(ns).codeable, fname)

FunctionData(fname, code, reqs_txt) ==
    [ok |-> TRUE, function_name |-> fname, code |-> code, requirements_txt |-> reqs_txt]

\* lines 124-128: the loop over node_implementations
RECURSIVE implementations_loop(_, _, _)
implementations_loop(impls, k, acc) ==
    IF k > Len(impls) THEN acc
    ELSE implementations_loop(impls, k + 1,
           [python_file |-> IF Truthy(impls[k].code)
                            THEN acc.python_file \o <<NL, NL>> \o impls[k].code.val
                            ELSE acc.python_file,
            requirements |-> acc.requirements \o impls[k].required_packages])

compile_graph(ns, impls, name) ==
    LET fname == str_lower(str_replace(str_replace(str_replace(str_strip(name),
                     S(<<" ">>), S(<<"_">>)), S(<<"-">>), S(<<"_">>)), S(<<"/">>), <<>>))
                 \o S(<<"_", "r", "e", "q", "u", "e", "s", "t">>)
        script == convert_graph_to_code(ns, fname)
        acc == implementations_loop(impls, 1, [python_file |-> <<>>, requirements |-> <<>>])
    IN FunctionData(fname, acc.python_file \o <<NL, NL>> \o script,
                    generate_requirements_txt(acc.requirements))

\* the inputs compile_graph is run on: a chain start -> one action per
\* implementation -> end, and the implementations with their code
Digit(i) == <<"0", "1", "2", "3", "4", "5", "6", "7", "8", "9">>[i + 1]

Node(i, code, required_packages) ==
    [name |-> S(<<"n", Digit(i)>>), code |-> code, required_packages |-> required_packages]

\* code: None, "", a body that parses, a body that does not
NodeCodes(i) == {Nothing, Some(<<>>), Some(<<BodyTok(i, "ok")>>), Some(<<BodyTok(i, "bad")>>)}

ChainGraph(n) ==
    LET x == <<Param(S(<<"x">>), S(<<"i", "n", "t">>))>>
        after(i) == IF i = n THEN S(<<"z">>) ELSE S(<<"n", Digit(i + 1)>>)
    IN <<NodeDefP(S(<<"s">>), "start", after(0), <<>>, x, <<>>)>>
       \o [i \in 1..n |-> NodeDefP(S(<<"n", Digit(i)>>), "action", after(i), x, x, <<>>)]
       \o <<NodeDefP(S(<<"z">>), "end", None, x, <<>>, <<>>)>>

InitCompileGraph ==
    /\ \E n \in 1..MaxImpl :
         /\ nodes = ChainGraph(n)
         /\ canon = nodes
         /\ \E code \in [1..n -> UNION {NodeCodes(i) : i \in 1..n}],
               pkgs \in [1..n -> {<<>>,
                           <<RequiredPackage(S(<<"a">>), Some(S(<<"1">>)), Nothing)>>,
                           <<RequiredPackage(S(<<"a">>), Some(S(<<"2">>)),
                                             Some(S(<<">", "=">>))),
                             RequiredPackage(S(<<"b">>), Nothing, Nothing)>>}] :
              /\ \A i \in 1..n : code[i] \in NodeCodes(i)
              /\ node_implementations = [i \in 1..n |-> Node(i, code[i], pkgs[i])]
    /\ ep_name \in {S(<<" ", "G", "e", "t", "-", "A", " ">>), S(<<"a", "/", "b", " ", "c">>)}
    /\ function_data = NoLinked
    /\ codeable_nodes = <<>> /\ commons = <<>>
    /\ pc = "ready"
    /\ IdleExcept({"graph", "assemble"})

\* compile_graph has no raise statement and calls nothing that raises
CompileGraph ==
    /\ pc = "ready"
    /\ function_data' = compile_graph(nodes, node_implementations, ep_name)
    /\ pc' = "done"
    /\ UNCHANGED <<node_implementations, ep_name, graphVars, linkVars, renderVars, reqVars,
                   concVars, bundleVars,
                   expandVars>>

NextCompileGraph == CompileGraph

SpecCompileGraph == InitCompileGraph /\ [][NextCompileGraph]_vars

\* C13: compile_graph either returns a complete compiled unit, which holds the
\* body text of every node implementation and the orchestration function and
\* parses, or it raises and returns nothing: an implementation without body
\* text or a composition that does not parse never gives a compiled unit.
C13_AssemblyAllOrNothing ==
    pc # "ready" =>
        /\ function_data.ok =>
             /\ \A k \in 1..Len(node_implementations) :
                  /\ Truthy(node_implementations[k].code)
                  /\ Contains(function_data.code, node_implementations[k].code.val)
             /\ Contains(function_data.code,
                         convert_graph_to_code(nodes, function_data.function_name))
             /\ ast_parse(function_data.code)
        /\ ~function_data.ok => pc = "raised"

(***************************************************************************)
(* create_fastapi_server (src/codex/compile.py).  The bundle is modelled   *)
(* by the contents of its members: the service files, the endpoints of     *)
(* server.py and requirements.txt.                                         *)
(***************************************************************************)
MaxRoutes == 2     \* most function data handed to one run
MaxRuns == 2       \* runs of create_fastapi_server on the same list

DefTok(nparams) == <<"def", nparams, "ok">>     \* the def of function_name, with its parameters

\* analyze_function_signature: the parameters of the function (-1 for None),
\* or the CompilerError
analyze_function_signature(code) ==
    IF ~ast_parse(code) THEN [ok |-> FALSE, exc |-> "CompilerError"]
    ELSE IF OfKind(code, "def") = <<>> THEN [ok |-> TRUE, params |-> -1]
    ELSE [ok |-> TRUE, params |-> OfKind(code, "def")[1][2]]

\* the requirement strings the set starts with: "fastapi\n", "uvicorn\n", "pydantic\n"
BaseRequirements ==
    {S(<<"f">>) \o <<NL>>, S(<<"u">>) \o <<NL>>, S(<<"p">>) \o <<NL>>}

\* lines 330-398: the loop over functions_data; acc holds the locals, or the
\* exception that ended the loop
RECURSIVE functions_loop(_, _, _)
functions_loop(fds, idx, acc) ==
    IF idx > Len(fds) THEN acc
    ELSE LET sig == analyze_function_signature(fds[idx].code) IN
         IF ~sig.ok THEN [ok |-> FALSE, exc |-> "CompilerError", idx |-> idx - 1]
         ELSE IF sig.params <= 0 THEN [ok |-> FALSE, exc |-> "ValueError", idx |-> idx - 1]
         ELSE functions_loop(fds, idx + 1,
                [ok |-> TRUE,
                 services |-> Append(acc.services, fds[idx].code),
                 endpoints |-> Append(acc.endpoints,
                                 [idx |-> idx - 1,
                                  method |-> IF sig.params > 1 THEN "post" ELSE "get",
                                  params |-> sig.params]),
                 combined_requirements |->
                     acc.combined_requirements \cup Range(splitlines(fds[idx].requirements_txt))])

\* the orders in which iterating a set of strings can yield its elements
\* (string hashes are salted per interpreter process)
IterationOrders(set) ==
    {order \in [1..Cardinality(set) -> set] :
        \A i, j \in 1..Cardinality(set) : i # j => order[i] # order[j]}

\* the inputs: each function data has its code and its requirements text
InitBundle ==
    /\ \E n \in 0..MaxRoutes :
         functions_data \in
             [1..n -> [code : {<<DefTok(0)>>, <<DefTok(1)>>, <<DefTok(2)>>,
                               <<BodyTok(0, "ok")>>, <<BodyTok(0, "bad")>>},
                       requirements_txt : {<<>>, S(<<"a">>), S(<<"b", "=", "=", "1">>)}]]
    /\ bundles = <<>>
    /\ pc = "ready"
    /\ IdleExcept({"bundle"})

\* one run of create_fastapi_server(functions_data)
CreateFastapiServer ==
    /\ pc = "ready"
    /\ Len(bundles) < MaxRuns
    /\ LET r == functions_loop(functions_data, 1,
                  [ok |-> TRUE, services |-> <<>>, endpoints |-> <<>>,
                   combined_requirements |-> BaseRequirements])
       IN IF ~r.ok THEN bundles' = Append(bundles, r)
          ELSE \E order \in IterationOrders(r.combined_requirements) :
                 bundles' = Append(bundles,
                    [ok |-> TRUE, services |-> r.services, server |-> r.endpoints,
                     requirements |-> Join(order, <<NL>>)])
    /\ pc' = IF Len(bundles) + 1 = MaxRuns THEN "done" ELSE "ready"
    /\ UNCHANGED <<functions_data, graphVars, linkVars, renderVars, reqVars, assembleVars,
                   concVars,
                   expandVars>>

NextBundle == CreateFastapiServer

SpecBundle == InitBundle /\ [][NextBundle]_vars

\* C15: two runs of create_fastapi_server on the same list of function data
\* give the same bundle, the line order of requirements.txt included.
C15_BundleReproducible ==
    \A i, j \in 1..Len(bundles) : bundles[i] = bundles[j]

(***************************************************************************)
(* Concurrent compile_route invocations (src/codex/develop/compile.py).    *)
(* A coroutine runs until it awaits the data store: find_unique_or_raise   *)
(* (line 90) or CompiledRoute.prisma().create (line 67).  An invocation is *)
(* its stack of recursive_compile_route frames: the top frame awaits the   *)
(* row of its function (k = 0), every frame below awaits its k-th child.   *)
(* db holds one fragment tree per invocation.                              *)
(***************************************************************************)
MaxConc == 2       \* most fragments in a tree linked concurrently with another

Frame(id) == [id |-> id, k |-> 0, acc |-> CompiledFunction(<<>>, <<>>, <<>>, <<>>)]

\* a stack without its top frame
Front(s) == SubSeq(s, 1, Len(s) - 1)

\* mutant: the seen-set is the object_type_ids parameter, whose default is one
\* set object shared by every call
new_object_types_from_parameter(object_type_ids) == object_type_ids

\* line 100: new_object_types = set(), a fresh object whatever the parameter
new_object_types(object_type_ids) == "fresh"

\* lines 101-108 on a seen-set holding ids: the models and the set afterwards
process_arguments(function, ids) ==
    LET a == IF function.FunctionArgs.none THEN [models |-> <<>>, ids |-> ids]
             ELSE args_loop(function.FunctionArgs.val, 1, <<>>, ids)
    IN IF function.FunctionReturn.none THEN a
       ELSE LET r == process_object_field(function.FunctionReturn.val, a.ids)
            IN [models |-> Append(a.models, r.text), ids |-> r.ids]

\* lines 144-167: the composite branch after its loop over the children
composite_finish(function, c) ==
    LET pkgs == c.packages \o function.Packages
        imports == c.imports \o function.importStatements
    IN IF function.functionCode.none
       THEN ValueError("code required", function.id, <<Lit(5)>>)
       ELSE LET code == c.code \o <<NL, NL>> \o function.functionCode.val
                check_code == Join(imports, <<NL>>) \o <<NL, NL>> \o code
            IN IF ~ast_parse(check_code)
               THEN ValueError("syntax", function.id, SyntaxErrorMessage(code))
               ELSE CompiledFunction(pkgs, imports, code, c.pydantic_models)

\* a frame above stack returned or raised outcome: the invocation runs on to
\* its next await, or to the end of recursive_compile_route(root)
RECURSIVE Resume(_, _, _)
Resume(d, stack, outcome) ==
    IF stack = <<>>
    THEN [stack |-> <<>>, status |-> IF outcome.ok THEN "creating" ELSE "raised",
          result |-> outcome]
    ELSE IF ~outcome.ok THEN Resume(d, Front(stack), outcome)
    ELSE LET top == stack[Len(stack)]
             function == d[top.id]
             children == function.ChildFunction.val
             acc == CompiledFunction(top.acc.packages \o outcome.packages,
                                     top.acc.imports \o outcome.imports,
                                     top.acc.code \o <<NL, NL>> \o outcome.code,
                                     top.acc.pydantic_models \o outcome.pydantic_models)
         IN IF top.k < Len(children)
            THEN [stack |-> Front(stack)
                            \o <<[top EXCEPT !.k = @ + 1, !.acc = acc],
                                 Frame(children[top.k + 1])>>,
                  status |-> "running", result |-> NoLinked]
            ELSE Resume(d, Front(stack), composite_finish(function, acc))

\* the top frame's find_unique_or_raise returned its row; pydantic_models are
\* the models lines 99-108 collected
AfterFind(d, stack, pydantic_models) ==
    LET top == stack[Len(stack)]
        function == d[top.id]
    IN IF function.ChildFunction.none
       THEN Resume(d, Front(stack), leaf_branch(function, pydantic_models))
       ELSE [stack |-> Front(stack)
                       \o <<[top EXCEPT !.k = 1], Frame(function.ChildFunction.val[1])>>,
             status |-> "running", result |-> NoLinked]

ConcTrees ==
    UNION {{[i \in 1..n |-> Function(i, n, parent, text[i], typing[i])] :
              parent \in Parents(n), text \in [1..n -> {"good", "nocode"}],
              typing \in [1..n -> {"prim", "t2"}]} : n \in 1..MaxConc}

InitConc ==
    /\ db \in [1..2 -> ConcTrees]
    /\ db[1] # db[2]
    /\ calls = [c \in 1..2 |->
                   [stack |-> <<>>, status |-> "ready", result |-> NoLinked, route |-> <<>>]]
    /\ object_type_ids_default = {}
    /\ linked = NoLinked
    /\ compiled_routes = <<>>
    /\ pc = "ready"
    /\ IdleExcept({"link", "conc"})

idleConc == <<pc, linked, graphVars, renderVars, reqVars, assembleVars, bundleVars>>

\* compile_route is called: it runs into recursive_compile_route(route_root_func),
\* up to the await of line 90
Call(c) ==
    /\ calls[c].status = "ready"
    /\ calls' = [calls EXCEPT ![c].stack = <<Frame(1)>>, ![c].status = "running"]
    /\ UNCHANGED <<db, compiled_routes, object_type_ids_default, idleConc,
                   expandVars>>

\* the await of line 90 returns in invocation c
FindUniqueReturns(c) ==
    /\ calls[c].status = "running"
    /\ LET stack == calls[c].stack
           function == db[c][stack[Len(stack)].id]
           seen == new_object_types("default")
           r == process_arguments(function,
                    IF seen = "default" THEN object_type_ids_default ELSE {})
           next == AfterFind(db[c], stack, r.models)
       IN /\ calls' = [calls EXCEPT ![c].stack = next.stack, ![c].status = next.status,
                                    ![c].result = next.result]
          /\ object_type_ids_default' =
                 IF seen = "default" THEN r.ids ELSE object_type_ids_default
    /\ UNCHANGED <<db, compiled_routes, idleConc,
                   expandVars>>

\* lines 51-68: the await of CompiledRoute.prisma().create returns
CreateReturns(c) ==
    /\ calls[c].status = "creating"
    /\ LET data == CompiledRouteCreateInput(calls[c].result, 1)
       IN /\ compiled_routes' = Append(compiled_routes, data)
          /\ calls' = [calls EXCEPT ![c].status = "done", ![c].route = data]
    /\ UNCHANGED <<db, object_type_ids_default, idleConc,
                   expandVars>>

NextConc == \E c \in 1..2 : Call(c) \/ FindUniqueReturns(c) \/ CreateReturns(c)

SpecConc == InitConc /\ [][NextConc]_vars

\* C14: in every interleaving of two compile_route invocations on different
\* fragment trees, what each invocation links, raises and creates is what it
\* does when run alone, and the set object that is the default seen-set of
\* every call is never written.
C14_ConcurrentLinksIndependent ==
    /\ object_type_ids_default = {}
    /\ \A c \in 1..Len(calls) :
         /\ calls[c].status \in {"creating", "done", "raised"} =>
                calls[c].result = recursive_compile_route(db[c], 1)
         /\ calls[c].status = "raised" => ~recursive_compile_route(db[c], 1).ok
         /\ calls[c].status = "done" =>
                /\ calls[c].route
                   = CompiledRouteCreateInput(recursive_compile_route(db[c], 1), 1)
                /\ InSeq(calls[c].route, compiled_routes)

\* both invocations linked a tree with structured types; the second one, on a
\* single leaf, created its route while the first was between two awaits
C14_Witness ==
    /\ calls[1].status = "running"
    /\ Len(calls[1].stack) = 2
    /\ calls[2].status = "done"
    /\ db[1][1].typing = "t2" /\ db[1][2].typing = "t2"
    /\ Declarations(calls[2].result) = <<1, 2>>
    /\ compiled_routes = <<calls[2].route>>

(***************************************************************************)
(* Further claims about the linearizer (checked under SpecGraph).          *)
(***************************************************************************)

\* C21: in every statement sequence pre_process_nodes returns, each if, elif
\* and else header at depth d is immediately followed by a statement at depth
\* d + 1: no branch header has an empty body.
C21_NoEmptyBranchBody ==
    pc = "done" =>
        \A h \in 1..Len(codeable_nodes) :
            codeable_nodes[h].node_type \in {"if", "elif", "else"} =>
                /\ h < Len(codeable_nodes)
                /\ codeable_nodes[h + 1].indent_level = codeable_nodes[h].indent_level + 1

(***************************************************************************)
(* Type expansion, one call at a time: process_object_field and            *)
(* process_object_type of develop/compile.py call each other; the frames   *)
(* of the process_object_type calls in progress are the stack.             *)
(***************************************************************************)

MaxTypes == 2      \* most ObjectType rows (raise to widen the check)

\* the seen-set as the caller of process_object_type finds it when line 267 is
\* left out (mutant)
object_type_ids_unchanged(object_type_ids, typeId) == object_type_ids

\* line 267, object_type_ids.add(field.typeId), which runs before line 269 calls
\* process_object_type
object_type_ids_add(object_type_ids, typeId) == object_type_ids \cup {typeId}

\* every table of at most MaxTypes rows: a row's Fields is None, or a list of
\* fields that are primitive (typeId 0) or refer to a row, itself included; the
\* argument is a field of any of these kinds
InitExpand ==
    /\ pc = "ready"
    /\ object_types \in
           [1..MaxTypes ->
               {Nothing} \cup
               {Some([k \in DOMAIN ts |-> ObjectField(ts[k])]) :
                   ts \in {s \in UNION {[1..n -> 0..MaxTypes] : n \in 0..(MaxTypes + 1)} :
                              \A i \in 1..(Len(s) - 1) : s[i] < s[i + 1]}}]
    /\ \E typeId \in 0..MaxTypes :
           expansion = [field |-> ObjectField(typeId), stack |-> <<>>,
                        object_type_ids |-> {}, result |-> NoLinked]
    /\ IdleExcept({"expand"})

\* lines 244-271, and lines 209-217 of the process_object_type call it makes: the
\* call of process_object_field on the argument (pc = "ready") or on the next
\* field of the row whose fields are being expanded.  The recursion depth a run
\* may reach is capped at MaxTypes + 1 frames.
ProcessObjectField ==
    /\ pc \in {"ready", "running"}
    /\ LET stack == expansion.stack
           top == stack[Len(stack)]
           field == IF pc = "ready" THEN expansion.field
                    ELSE object_types[top.obj].val[top.k]
           returned(text) ==
               IF pc = "ready"
               THEN /\ pc' = "done"
                    /\ expansion' = [expansion EXCEPT !.result = text]
               ELSE /\ pc' = pc
                    /\ expansion' =
                           [expansion EXCEPT
                               !.stack[Len(stack)].k = @ + 1,
                               !.stack[Len(stack)].sub_types =
                                   IF field.typeId = 0 THEN @ ELSE Append(@, text)]
       IN /\ pc = "running" => top.k <= Len(object_types[top.obj].val)
          /\ IF field.typeId = 0 \/ field.typeId \in expansion.object_type_ids
             THEN returned(<<>>)
             ELSE /\ Len(stack) < MaxTypes + 1
                  /\ IF object_types[field.typeId] = Nothing
                     THEN /\ pc' = "raised"
                          /\ expansion' =
                                 [expansion EXCEPT
                                     !.object_type_ids =
                                         object_type_ids_add(@, field.typeId),
                                     !.stack = <<>>,
                                     !.result = ValueError("fields", field.typeId, <<>>)]
                     ELSE /\ pc' = "running"
                          /\ expansion' =
                                 [expansion EXCEPT
                                     !.object_type_ids =
                                         object_type_ids_add(@, field.typeId),
                                     !.stack = Append(@, [obj |-> field.typeId, k |-> 1,
                                                          sub_types |-> <<>>])]
    /\ UNCHANGED <<object_types, graphVars, linkVars, renderVars, reqVars, assembleVars,
                   concVars, bundleVars>>

\* lines 230-241 and 269-271: the loop over obj.Fields is over, process_object_type
\* returns its template and process_object_field returns it to its caller
ProcessObjectTypeReturns ==
    /\ pc = "running"
    /\ LET stack == expansion.stack
           top == stack[Len(stack)]
           template == Join(top.sub_types, <<NL, NL>>) \o <<NL, NL, ClassTok(top.obj)>>
           rest == SubSeq(stack, 1, Len(stack) - 1)
       IN /\ top.k > Len(object_types[top.obj].val)
          /\ IF rest = <<>>
             THEN /\ pc' = "done"
                  /\ expansion' = [expansion EXCEPT !.stack = rest, !.result = template]
             ELSE /\ pc' = pc
                  /\ expansion' =
                         [expansion EXCEPT
                             !.stack = [rest EXCEPT
                                           ![Len(rest)].k = @ + 1,
                                           ![Len(rest)].sub_types = Append(@, template)]]
    /\ UNCHANGED <<object_types, graphVars, linkVars, renderVars, reqVars, assembleVars,
                   concVars, bundleVars>>

NextExpand == ProcessObjectField \/ ProcessObjectTypeReturns

\* a Python call that can take a step takes it: the run is never suspended
SpecExpand == InitExpand /\ [][NextExpand]_vars /\ WF_vars(NextExpand)

\* C22: type expansion terminates for every table of ObjectTypes, those whose
\* fields refer to themselves or to each other in a cycle included: every run
\* of process_object_field returns or raises, and never holds more
\* process_object_type frames than there are rows.
C22_TypeExpansionTerminates ==
    /\ <>(pc \in {"done", "raised"})
    /\ [](Len(expansion.stack) <= MaxTypes)

\* the expansion of a row that refers to itself and to a row that refers back
\* to it has returned, with one class for each of the two rows
C22_Witness ==
    /\ pc = "done"
    /\ expansion.field = ObjectField(1)
    /\ object_types[1] = Some(<<ObjectField(1), ObjectField(2)>>)
    /\ object_types[2] = Some(<<ObjectField(0), ObjectField(1)>>)
    /\ expansion.object_type_ids = {1, 2}
    /\ OfKind(expansion.result, "class") = <<ClassTok(2), ClassTok(1)>>

====
